---- MODULE Spec2Model ----
(***************************************************************************)
(* Model of app.py: a Flask proxy in front of the BDL (GUS) statistics API *)
(* with a locality-resolution heuristic (_pick_best_locality), a defensive *)
(* value extractor (_extract_latest_value), an in-memory TTL cache         *)
(* (_cache_get / _cache_set) and the handler GET /bdl/population.          *)
(*                                                                         *)
(* Python strings are sequences of one-character strings.  JSON values are *)
(* tagged records: [t |-> "null"], [t |-> "bool", b], [t |-> "num", n],    *)
(* [t |-> "str", s], [t |-> "list", l], [t |-> "obj", o].  A Python call   *)
(* that can raise yields [raised |-> TRUE, exc] or [raised |-> FALSE, val].*)
(***************************************************************************)
EXTENDS Integers, Sequences, FiniteSets, TLC

VARIABLES
    CACHE,      \* app.py:19  the process-wide dict  key -> (ts, val)
    now,        \* the wall clock read by time.time()
    ticks,      \* number of clock advances so far (bounded)
    th,         \* per worker thread: position in bdl_population and its locals
    last,       \* observation: the record of the request that the step leading to this
                \* state has finished, if it finished one
    ended,      \* history: how the request that finished last ended, and when
    nreq,       \* number of requests received so far (bounded)
    written,    \* history: key -> the (ts, val) of the last _cache_set on it and the
                \* normalized parameters of the request that made it
    delLog,     \* history: the outcomes del CACHE[key] has had so far
    cacheOp,    \* sequential cache driver: the last call made and what it returned
    lastSet,    \* sequential cache driver: key -> (time, val) of the last _cache_set
    pickIn,     \* arguments of a _pick_best_locality call
    pickOut,    \* its outcome
    exIn,       \* argument of a _extract_latest_value call
    exOut       \* its outcome

vars == <<CACHE, now, ticks, th, last, ended, nreq, written, delLog,
          cacheOp, lastSet, pickIn, pickOut, exIn, exOut>>

-----------------------------------------------------------------------------
(* Bounds *)

MaxTicks == 2
MaxReq == 3
MaxItems == 2
MaxRows == 2

(* Program constants *)

CACHE_TTL_SECONDS == 86400

-----------------------------------------------------------------------------
(* Python values *)

JNull == [t |-> "null"]
JBool(b) == [t |-> "bool", b |-> b]
JNum(n) == [t |-> "num", n |-> n]
JStr(s) == [t |-> "str", s |-> s]
JList(l) == [t |-> "list", l |-> l]
JObj(o) == [t |-> "obj", o |-> o]
EmptyObj == JObj([k \in {} |-> JNull])

Ret(v) == [raised |-> FALSE, val |-> v]
Raise(e) == [raised |-> TRUE, exc |-> e]

\* bool(v)
PyTruthy(v) ==
    CASE v.t = "null" -> FALSE
      [] v.t = "bool" -> v.b
      [] v.t = "num" -> v.n # 0
      [] v.t = "str" -> v.s # <<>>
      [] v.t = "list" -> v.l # <<>>
      [] v.t = "obj" -> DOMAIN v.o # {}

\* a or b
PyOr(a, b) == IF PyTruthy(a) THEN a ELSE b

\* d.get(k) on a dict d
DictGet(d, k) == IF k \in DOMAIN d.o THEN d.o[k] ELSE JNull

-----------------------------------------------------------------------------
(* Strings *)

IsSpace(c) == c \in {" ", "\t"}

RECURSIVE LStrip(_)
LStrip(s) == IF s # <<>> /\ IsSpace(Head(s)) THEN LStrip(Tail(s)) ELSE s

RECURSIVE RStrip(_)
RStrip(s) ==
    IF s # <<>> /\ IsSpace(s[Len(s)]) THEN RStrip(SubSeq(s, 1, Len(s) - 1)) ELSE s

\* s.strip()
Strip(s) == RStrip(LStrip(s))

\* s.split(): the maximal runs of non-whitespace characters
RECURSIVE SplitAcc(_, _, _)
SplitAcc(s, cur, toks) ==
    IF s = <<>>
    THEN IF cur = <<>> THEN toks ELSE Append(toks, cur)
    ELSE IF IsSpace(Head(s))
         THEN SplitAcc(Tail(s), <<>>, IF cur = <<>> THEN toks ELSE Append(toks, cur))
         ELSE SplitAcc(Tail(s), Append(cur, Head(s)), toks)

Split(s) == SplitAcc(s, <<>>, <<>>)

\* sep.join(parts)
RECURSIVE Join(_, _)
Join(sep, parts) ==
    IF parts = <<>> THEN <<>>
    ELSE IF Len(parts) = 1 THEN parts[1]
    ELSE parts[1] \o sep \o Join(sep, Tail(parts))

\* _norm on a str (or None, given as the empty string by "s or ''")
NormStr(s) == Join(<<" ">>, Split(Strip(s)))

LowerChar(c) ==
    CASE c = "A" -> "a"
      [] c = "G" -> "g"
      [] c = "P" -> "p"
      [] c = "W" -> "w"
      [] c = "O" -> "o"
      [] c = "X" -> "x"
      [] OTHER -> c

\* s.lower()
Lower(s) == [i \in 1..Len(s) |-> LowerChar(s[i])]

\* a in b, for strings
IsSubstr(a, b) ==
    \E i \in 0..(Len(b) - Len(a)) : SubSeq(b, i + 1, i + Len(a)) = a

\* _norm(v) for a value that came out of JSON: (v or "").strip() is an
\* AttributeError on a truthy value that is no str
NormRaises(v) == PyTruthy(v) /\ v.t # "str"
Norm(v) == IF PyTruthy(v) THEN NormStr(v.s) ELSE <<>>

\* _safe_lower
SafeLower(v) == Lower(Norm(v))

-----------------------------------------------------------------------------
(* _pick_best_locality, app.py:62-115 *)

BlobFields == <<"name", "unitName", "parentName", "administrativeUnitName", "description">>

\* score(it) raises AttributeError when it has no .get or a field is a truthy non-str
ScoreRaises(it) ==
    \/ it.t # "obj"
    \/ \E i \in 1..Len(BlobFields) : NormRaises(DictGet(it, BlobFields[i]))

\* the name test reversed: the substring test first hides the exact match
NameScorePartialFirst(name, m0) ==
    IF m0 # <<>> /\ IsSubstr(m0, name) THEN 20
    ELSE IF name = m0 THEN 50
    ELSE 0

\* app.py:85-88
NameScore(name, m0) ==
    IF name = m0 THEN 50
    ELSE IF m0 # <<>> /\ IsSubstr(m0, name) THEN 20
    ELSE 0

\* app.py:92-100
Blob(it) == Join(<<" ">>, [i \in 1..Len(BlobFields) |-> SafeLower(DictGet(it, BlobFields[i]))])

\* app.py:102-107
HintScore(it, g0, p0, w0) ==
    LET blob == Blob(it)
    IN  (IF g0 # <<>> /\ IsSubstr(g0, blob) THEN 15 ELSE 0)
        + (IF p0 # <<>> /\ IsSubstr(p0, blob) THEN 10 ELSE 0)
        + (IF w0 # <<>> /\ IsSubstr(w0, blob) THEN 5 ELSE 0)

\* app.py:110-111
IdScore(it) == IF PyTruthy(DictGet(it, "id")) THEN 1 ELSE 0

\* app.py:81-112
Score(it, m0, g0, p0, w0) ==
    NameScore(SafeLower(DictGet(it, "name")), m0) + HintScore(it, g0, p0, w0) + IdScore(it)

\* the items with their sort keys: sorted() calls key=score once per item
Keyed(l, m0, g0, p0, w0) ==
    [i \in 1..Len(l) |-> [it |-> l[i], key |-> Score(l[i], m0, g0, p0, w0)]]

\* an ascending sort read from the back: the last of equal candidates comes first
RECURSIVE InsertDescUnstable(_, _)
InsertDescUnstable(x, r) ==
    IF r = <<>> THEN <<x>>
    ELSE IF Head(r).key > x.key THEN <<Head(r)>> \o InsertDescUnstable(x, Tail(r))
         ELSE <<x>> \o r

\* one step of the stable descending sort: x, met after the elements of r,
\* goes behind every element whose key is at least its own
RECURSIVE InsertDesc(_, _)
InsertDesc(x, r) ==
    IF r = <<>> THEN <<x>>
    ELSE IF Head(r).key >= x.key THEN <<Head(r)>> \o InsertDesc(x, Tail(r))
         ELSE <<x>> \o r

RECURSIVE SortedDescFrom(_, _)
SortedDescFrom(l, acc) ==
    IF l = <<>> THEN acc ELSE SortedDescFrom(Tail(l), InsertDesc(Head(l), acc))

\* sorted(items, key=score, reverse=True), app.py:114
SortedDesc(l, m0, g0, p0, w0) == SortedDescFrom(Keyed(l, m0, g0, p0, w0), <<>>)

\* _pick_best_locality(items, miejscowosc, gmina, powiat, woj); the hints are str
PickBest(items, miejscowosc, gmina, powiat, woj) ==
    LET m0 == Lower(NormStr(miejscowosc))
        g0 == Lower(NormStr(gmina))
        p0 == Lower(NormStr(powiat))
        w0 == Lower(NormStr(woj))
    IN  IF ~PyTruthy(items) THEN Ret(JNull)
        ELSE IF items.t \in {"num", "bool"} THEN Raise("TypeError")
        ELSE IF items.t \in {"str", "obj"} THEN Raise("AttributeError")
        ELSE IF \E i \in 1..Len(items.l) : ScoreRaises(items.l[i])
             THEN Raise("AttributeError")
             ELSE Ret(SortedDesc(items.l, m0, g0, p0, w0)[1].it)

-----------------------------------------------------------------------------
(* _extract_latest_value, app.py:118-151 *)

Digits == <<"0", "1", "2", "3", "4", "5", "6", "7", "8", "9">>
IsDigit(c) == \E d \in 1..10 : Digits[d] = c
DigitVal(c) == (CHOOSE d \in 1..10 : Digits[d] = c) - 1

RECURSIVE StrToNat(_, _)
StrToNat(s, acc) ==
    IF s = <<>> THEN acc ELSE StrToNat(Tail(s), 10 * acc + DigitVal(Head(s)))

\* the numerals float() and int() both accept among the strings of digits,
\* blanks and letters: a run of digits with blanks around it
IsNumeral(s) == Strip(s) # <<>> /\ \A i \in 1..Len(Strip(s)) : IsDigit(Strip(s)[i])

Parsed(n) == [ok |-> TRUE, n |-> n]
NotParsed == [ok |-> FALSE]

\* float(val) under try/except Exception, app.py:143
PyFloat(v) ==
    CASE v.t = "num" -> Parsed(v.n)
      [] v.t = "bool" -> Parsed(IF v.b THEN 1 ELSE 0)
      [] v.t = "str" -> IF IsNumeral(v.s) THEN Parsed(StrToNat(Strip(v.s), 0)) ELSE NotParsed
      [] OTHER -> NotParsed

\* int(year) under try/except Exception, app.py:144
PyInt(v) ==
    CASE v.t = "num" -> Parsed(v.n)
      [] v.t = "bool" -> Parsed(IF v.b THEN 1 ELSE 0)
      [] v.t = "str" -> IF IsNumeral(v.s) THEN Parsed(StrToNat(Strip(v.s), 0)) ELSE NotParsed
      [] OTHER -> NotParsed

\* app.py:138: the rows the loop does not skip for their shape
RowShaped(row) == row.t = "list" /\ Len(row.l) >= 3

\* app.py:138-146: the rows that reach the comparison
RowParses(row) == RowShaped(row) /\ PyFloat(row.l[1]).ok /\ PyInt(row.l[3]).ok

NoBest == [val |-> JNull, year |-> JNull]

\* app.py:137-149: one turn of the inner loop
RowStep(best, row) ==
    IF ~RowParses(row) THEN best
    ELSE IF best.year = JNull \/ PyInt(row.l[3]).n > best.year.n
         THEN [val |-> JNum(PyFloat(row.l[1]).n), year |-> JNum(PyInt(row.l[3]).n)]
         ELSE best

RECURSIVE RowsFold(_, _)
RowsFold(best, rows) ==
    IF rows = <<>> THEN best ELSE RowsFold(RowStep(best, Head(rows)), Tail(rows))

\* app.py:134: res.get(...) raises AttributeError when res is no dict
GroupRaises(res) == res.t # "obj"

\* app.py:134
GroupValues(res) == PyOr(PyOr(DictGet(res, "values"), DictGet(res, "data")), JList(<<>>))

\* app.py:133-149: the outer loop; a raise leaves it at once
RECURSIVE GroupsFold(_, _)
GroupsFold(best, groups) ==
    IF groups = <<>> THEN Ret(best)
    ELSE IF GroupRaises(Head(groups)) THEN Raise("AttributeError")
    ELSE LET values == GroupValues(Head(groups))
         IN  GroupsFold(IF values.t = "list" THEN RowsFold(best, values.l) ELSE best,
                        Tail(groups))

\* iterating a str yields its characters
StrChars(s) == [i \in 1..Len(s) |-> JStr(<<s[i]>>)]

\* app.py:126-128
TopResults(data_json) ==
    LET r == PyOr(PyOr(DictGet(data_json, "results"), DictGet(data_json, "result")), JList(<<>>))
    IN  IF r.t = "obj" THEN JList(<<r>>) ELSE r

\* _extract_latest_value(data_json)
ExtractLatest(data_json) ==
    IF data_json.t # "obj" THEN Raise("AttributeError")
    ELSE LET results == TopResults(data_json)
         IN  CASE results.t = "list" -> GroupsFold(NoBest, results.l)
               [] results.t = "str" -> GroupsFold(NoBest, StrChars(results.s))
               [] OTHER -> Raise("TypeError")

-----------------------------------------------------------------------------
(* The cache, app.py:19-45 *)

\* a cache lookup that found nothing: CACHE.get(key) is None
NoItem == <<>>

\* CACHE.get(key), app.py:31
CacheLookup(cache, key) == IF key \in DOMAIN cache THEN cache[key] ELSE NoItem

\* the age test with >= : an entry exactly one TTL old is already expired
ExpiredAtTTL(item, t) == t - item[1] >= CACHE_TTL_SECONDS

\* time.time() - ts > CACHE_TTL_SECONDS, app.py:35
Expired(item, t) == t - item[1] > CACHE_TTL_SECONDS

\* del without the try/except: a key already removed raises KeyError
TryDelUncaught(cache, key) ==
    IF key \in DOMAIN cache
    THEN [cache |-> [k \in DOMAIN cache \ {key} |-> cache[k]], outcome |-> "removed"]
    ELSE [cache |-> cache, outcome |-> "raised"]

\* try: del CACHE[key] / except KeyError: pass, app.py:36-39
TryDel(cache, key) ==
    IF key \in DOMAIN cache
    THEN [cache |-> [k \in DOMAIN cache \ {key} |-> cache[k]], outcome |-> "removed"]
    ELSE [cache |-> cache, outcome |-> "absent"]

\* the expired entry is reported absent but left in the dict
CacheGetNoPurge(cache, key, t) ==
    LET item == CacheLookup(cache, key)
    IN  IF item = NoItem THEN [cache |-> cache, ret |-> JNull, outcome |-> "none"]
        ELSE IF Expired(item, t)
             THEN [cache |-> cache, ret |-> JNull, outcome |-> "none"]
             ELSE [cache |-> cache, ret |-> item[2], outcome |-> "none"]

\* _cache_get(key) run without interruption at time t, app.py:30-41
CacheGet(cache, key, t) ==
    LET item == CacheLookup(cache, key)
    IN  IF item = NoItem THEN [cache |-> cache, ret |-> JNull, outcome |-> "none"]
        ELSE IF Expired(item, t)
             THEN [cache |-> TryDel(cache, key).cache, ret |-> JNull,
                   outcome |-> TryDel(cache, key).outcome]
             ELSE [cache |-> cache, ret |-> item[2], outcome |-> "none"]

\* _cache_set(key, val) at time t, app.py:44-45
CacheSet(cache, key, t, val) ==
    [k \in DOMAIN cache \cup {key} |-> IF k = key THEN <<t, val>> ELSE cache[k]]

EmptyCache == [k \in {} |-> NoItem]
NoWrites == [k \in {} |-> NoItem]

\* the clock moves by a second or by a whole TTL
TickSteps == {1, CACHE_TTL_SECONDS}

Tick ==
    /\ ticks < MaxTicks
    /\ \E d \in TickSteps : now' = now + d
    /\ ticks' = ticks + 1
    /\ UNCHANGED <<CACHE, th, last, ended, nreq, written, delLog, cacheOp, lastSet,
                   pickIn, pickOut, exIn, exOut>>

-----------------------------------------------------------------------------
(* Sequential use of the cache: calls of _cache_set and _cache_get, one at a time *)

CacheKeys == {<<"k">>, <<"j">>}
CacheVals == {JNull, JNum(0), JNum(7), EmptyObj}

Idle == [pc |-> "idle"]
Threads == {1, 2}
NoCall == [done |-> FALSE]

CacheSetCall ==
    \E k \in CacheKeys, v \in CacheVals :
        /\ CACHE' = CacheSet(CACHE, k, now, v)
        /\ lastSet' = [lastSet EXCEPT ![k] = <<now, v>>]
        /\ cacheOp' = [op |-> "set", key |-> k, at |-> now]
        /\ UNCHANGED <<now, ticks, th, last, ended, nreq, written, delLog,
                       pickIn, pickOut, exIn, exOut>>

CacheGetCall ==
    \E k \in CacheKeys :
        /\ CACHE' = CacheGet(CACHE, k, now).cache
        /\ cacheOp' = [op |-> "get", key |-> k, at |-> now, ret |-> CacheGet(CACHE, k, now).ret]
        /\ UNCHANGED <<now, ticks, th, last, ended, nreq, written, delLog, lastSet,
                       pickIn, pickOut, exIn, exOut>>

InitCache ==
    /\ CACHE = EmptyCache
    /\ now = 0
    /\ ticks = 0
    /\ th = [t \in Threads |-> Idle]
    /\ last = NoCall
    /\ ended = NoCall
    /\ nreq = 0
    /\ written = NoWrites
    /\ delLog = {}
    /\ cacheOp = [op |-> "none"]
    /\ lastSet = [k \in CacheKeys |-> NoItem]
    /\ pickIn = NoCall
    /\ pickOut = NoCall
    /\ exIn = NoCall
    /\ exOut = NoCall

NextCache == CacheSetCall \/ CacheGetCall \/ Tick

SpecCache == InitCache /\ [][NextCache]_vars

\* C2: a _cache_get(k) made at the very time of the last _cache_set(k, v) returns
\* v; a _cache_get(k) made more than CACHE_TTL_SECONDS after the last
\* _cache_set(k, ...) returns None and leaves no entry for k in CACHE.
CacheRoundTrip ==
    (cacheOp.op = "get" /\ lastSet[cacheOp.key] # NoItem) =>
        LET ls == lastSet[cacheOp.key]
        IN  /\ (cacheOp.at = ls[1] => cacheOp.ret = ls[2])
            /\ (cacheOp.at - ls[1] > CACHE_TTL_SECONDS =>
                    cacheOp.ret = JNull /\ cacheOp.key \notin DOMAIN CACHE)

\* a get of an entry older than the TTL has returned None and removed it,
\* while the entry of another key is still in CACHE
CacheRoundTripWitness ==
    /\ cacheOp.op = "get"
    /\ lastSet[cacheOp.key] # NoItem
    /\ cacheOp.at - lastSet[cacheOp.key][1] > CACHE_TTL_SECONDS
    /\ cacheOp.ret = JNull
    /\ \E k \in CacheKeys : k # cacheOp.key /\ k \in DOMAIN CACHE

-----------------------------------------------------------------------------
(* Calls of _pick_best_locality on candidate records as the upstream sends them *)

Field(k, v) == [x \in {k} |-> v]

\* f and g merged, f first
Merge(f, g) == [x \in DOMAIN f \cup DOMAIN g |-> IF x \in DOMAIN f THEN f[x] ELSE g[x]]

NoField == [x \in {} |-> JNull]

CandNames == {<<"W", "o">>, <<"w", "o", " ", " ", "X">>, <<"x">>}
CandUnits ==
    {NoField, Merge(Field("unitName", JStr(<<"G">>)), Field("parentName", JStr(<<"P">>)))}
CandIds == {NoField, Field("id", JStr(<<"1">>))}

Candidates ==
    {JObj(Merge(Merge(Field("name", JStr(n)), u), i)) :
        n \in CandNames, u \in CandUnits, i \in CandIds}

SeqsUpTo(S, n) == UNION {[1..k -> S] : k \in 0..n}

PlaceHints == {<<" ", "w", "O">>, <<>>}
GminaHints == {<<>>, <<"g">>}
PowiatHints == {<<>>, <<"p", "\t">>}
WojHints == {<<>>, <<"w">>}

InitPick ==
    /\ pickIn \in [items : SeqsUpTo(Candidates, MaxItems), miejscowosc : PlaceHints,
                   gmina : GminaHints, powiat : PowiatHints, woj : WojHints]
    /\ pickOut = NoCall
    /\ CACHE = EmptyCache
    /\ now = 0
    /\ ticks = 0
    /\ th = [t \in Threads |-> Idle]
    /\ last = NoCall
    /\ ended = NoCall
    /\ nreq = 0
    /\ written = NoWrites
    /\ delLog = {}
    /\ cacheOp = [op |-> "none"]
    /\ lastSet = [k \in CacheKeys |-> NoItem]
    /\ exIn = NoCall
    /\ exOut = NoCall

PickCall ==
    /\ ~pickOut.done
    /\ pickOut' = [done |-> TRUE,
                   res |-> PickBest(JList(pickIn.items), pickIn.miejscowosc, pickIn.gmina,
                                    pickIn.powiat, pickIn.woj)]
    /\ UNCHANGED <<CACHE, now, ticks, th, last, ended, nreq, written, delLog, cacheOp, lastSet,
                   pickIn, exIn, exOut>>

NextPick == PickCall

SpecPick == InitPick /\ [][NextPick]_vars

\* the normalized, lower-cased hints of the call
PickM0 == Lower(NormStr(pickIn.miejscowosc))
PickG0 == Lower(NormStr(pickIn.gmina))
PickP0 == Lower(NormStr(pickIn.powiat))
PickW0 == Lower(NormStr(pickIn.woj))

PickScore(it) == Score(it, PickM0, PickG0, PickP0, PickW0)

\* how well a candidate's name matches the place: 2 equal, 1 contains it, 0 neither
NameMatch(it) ==
    LET name == Lower(NormStr(DictGet(it, "name").s))
    IN  IF name = PickM0 THEN 2 ELSE IF IsSubstr(PickM0, name) THEN 1 ELSE 0

\* which of the gmina, powiat and woj hints are found in the candidate's blob
HintHits(it) ==
    <<PickG0 # <<>> /\ IsSubstr(PickG0, Blob(it)),
      PickP0 # <<>> /\ IsSubstr(PickP0, Blob(it)),
      PickW0 # <<>> /\ IsSubstr(PickW0, Blob(it))>>

HasId(it) == PyTruthy(DictGet(it, "id"))

\* C6: of two candidates of the list with the same hint hits and the same id
\* presence, the one whose name matches the place better (equal > contains >
\* neither) has the strictly higher score, so the other one is not returned; in
\* a list of these two the better match is returned, wherever it stands.
NameMatchOrder ==
    pickOut.done =>
        LET n == Len(pickIn.items)
            hits == [i \in 1..n |-> HintHits(pickIn.items[i])]
            match == [i \in 1..n |-> NameMatch(pickIn.items[i])]
            score == [i \in 1..n |-> PickScore(pickIn.items[i])]
        IN  \A i, j \in 1..n :
                (hits[i] = hits[j] /\ HasId(pickIn.items[i]) = HasId(pickIn.items[j])
                 /\ match[i] > match[j]) =>
                    /\ score[i] > score[j]
                    /\ pickOut.res # Ret(pickIn.items[j])
                    /\ n = 2 => pickOut.res = Ret(pickIn.items[i])

\* an exact match listed after a substring match with the same hint hits and id won
NameMatchOrderWitness ==
    /\ pickOut.done
    /\ Len(pickIn.items) = 2
    /\ NameMatch(pickIn.items[2]) = 2
    /\ NameMatch(pickIn.items[1]) = 1
    /\ HintHits(pickIn.items[1]) = HintHits(pickIn.items[2])
    /\ HintHits(pickIn.items[1])[1]
    /\ HasId(pickIn.items[1]) = HasId(pickIn.items[2])
    /\ pickOut.res = Ret(pickIn.items[2])

\* C7: the call returns None exactly when the list is empty; otherwise it returns
\* the earliest candidate of the list among those of maximal score.
PickStable ==
    pickOut.done =>
        LET score == [j \in 1..Len(pickIn.items) |-> PickScore(pickIn.items[j])]
        IN  /\ ~pickOut.res.raised
            /\ (pickOut.res.val = JNull) <=> (pickIn.items = <<>>)
            /\ pickIn.items # <<>> =>
                  \E i \in 1..Len(pickIn.items) :
                      /\ pickOut.res.val = pickIn.items[i]
                      /\ \A j \in 1..Len(pickIn.items) : score[j] <= score[i]
                      /\ \A j \in 1..(i - 1) : score[j] < score[i]

\* two different candidates tie at the top score and the first of them is returned
PickStableWitness ==
    /\ pickOut.done
    /\ Len(pickIn.items) = 2
    /\ pickIn.items[1] # pickIn.items[2]
    /\ PickScore(pickIn.items[1]) = PickScore(pickIn.items[2])
    /\ PickScore(pickIn.items[1]) > 0
    /\ pickOut.res = Ret(pickIn.items[1])

-----------------------------------------------------------------------------
(* Calls of _extract_latest_value on loosely-typed payloads *)

Row(val, attr, year) == JList(<<val, attr, year>>)

RowElems ==
    { Row(JNum(120), JNum(7), JNum(2020)),
      Row(JNum(130), JNum(7), JNum(2021)),
      Row(JStr(<<"b", "a", "d">>), JNum(7), JNum(2022)),
      Row(JStr(<<"1", "5">>), JNum(7), JStr(<<" ", "2", "0", "2", "1">>)),
      JNum(7) }

ValuesGroup(rows) == JObj(Field("values", JList(rows)))

\* groups of other shapes: rows under "data", an empty "values" beside a "data",
\* a "values" that is no list, no key at all, a short row, a group that is no object
OddGroups ==
    { JObj(Field("data", JList(<<Row(JNum(130), JNum(7), JNum(2021))>>))),
      JObj(Merge(Field("values", JList(<<>>)),
                 Field("data", JList(<<Row(JNum(120), JNum(7), JNum(2020))>>)))),
      JObj(Field("values", JNum(5))),
      EmptyObj,
      ValuesGroup(<<JList(<<JNum(130), JNum(7)>>)>>),
      JNum(1) }

Groups == {ValuesGroup(rows) : rows \in SeqsUpTo(RowElems, MaxRows)} \cup OddGroups

SecondGroups ==
    OddGroups \cup { ValuesGroup(<<Row(JNum(120), JNum(7), JNum(2020))>>),
                     ValuesGroup(<<Row(JNum(130), JNum(7), JNum(2021))>>),
                     ValuesGroup(<<Row(JNum(140), JNum(7), JNum(2021))>>) }

Payloads ==
    {JObj(Field("results", JList(<<g>>))) : g \in Groups}
    \cup {JObj(Field("results", JList(<<g, h>>))) : g \in Groups, h \in SecondGroups}
    \cup {JObj(Field("result", g)) : g \in Groups}
    \cup { EmptyObj,
           JObj(Field("results", JList(<<>>))),
           JObj(Field("results", JNum(5))),
           JObj(Field("results", JStr(<<"a", "b">>))),
           JObj(Field("results", JBool(TRUE))),
           JObj(Merge(Field("results", JNull),
                      Field("result", JList(<<ValuesGroup(<<Row(JNum(120), JNum(7), JNum(2020))>>)>>)))) }

InitExtract ==
    /\ exIn \in Payloads
    /\ exOut = NoCall
    /\ CACHE = EmptyCache
    /\ now = 0
    /\ ticks = 0
    /\ th = [t \in Threads |-> Idle]
    /\ last = NoCall
    /\ ended = NoCall
    /\ nreq = 0
    /\ written = NoWrites
    /\ delLog = {}
    /\ cacheOp = [op |-> "none"]
    /\ lastSet = [k \in CacheKeys |-> NoItem]
    /\ pickIn = NoCall
    /\ pickOut = NoCall

ExtractCall ==
    /\ ~exOut.done
    /\ exOut' = [done |-> TRUE, res |-> ExtractLatest(exIn)]
    /\ UNCHANGED <<CACHE, now, ticks, th, last, ended, nreq, written, delLog, cacheOp, lastSet,
                   pickIn, pickOut, exIn>>

NextExtract == ExtractCall

SpecExtract == InitExtract /\ [][NextExtract]_vars

\* C4: the call never raises, whatever the types of the top-level results, of
\* the result groups and of the rows: it returns a (value, year) pair or
\* (None, None).
ExtractNeverThrows == exOut.done => ~exOut.res.raised

\* the result groups of a payload, in payload order, whatever their type
PayloadGroups(payload) ==
    LET r == PyOr(PyOr(DictGet(payload, "results"), DictGet(payload, "result")), JList(<<>>))
    IN  CASE r.t = "list" -> r.l
          [] r.t = "obj" -> <<r>>
          [] OTHER -> <<>>

\* the rows of a group: its "values", else its "data", when that is a list
GroupRows(g) ==
    IF g.t # "obj" THEN <<>>
    ELSE LET v == PyOr(PyOr(DictGet(g, "values"), DictGet(g, "data")), JList(<<>>))
         IN  IF v.t = "list" THEN v.l ELSE <<>>

RECURSIVE Flatten(_)
Flatten(groups) ==
    IF groups = <<>> THEN <<>> ELSE GroupRows(Head(groups)) \o Flatten(Tail(groups))

\* the first row, in payload order, among the parseable rows of maximal year
ExpectedLatest(payload) ==
    LET rows == Flatten(PayloadGroups(payload))
        P == {i \in 1..Len(rows) : RowParses(rows[i])}
        top == {i \in P : \A j \in P : PyInt(rows[j].l[3]).n <= PyInt(rows[i].l[3]).n}
    IN  IF P = {} THEN NoBest
        ELSE LET i == CHOOSE i \in top : \A j \in top : i <= j
             IN  [val |-> JNum(PyFloat(rows[i].l[1]).n), year |-> JNum(PyInt(rows[i].l[3]).n)]

\* C5: the call returns the (value, year) of the first row in payload order among
\* the rows of maximal year that parse as (number, _, integer), over all result
\* groups, and (None, None) when no row parses.
ExtractLatestOfAllRows == exOut.done => exOut.res = Ret(ExpectedLatest(exIn))

-----------------------------------------------------------------------------
(* The upstream: _req_json, app.py:56-59 *)

Timeout == [kind |-> "timeout"]
NetError == [kind |-> "neterror"]
HttpJson(status, v) == [kind |-> "response", status |-> status, isJson |-> TRUE, json |-> v]
HttpText(status) == [kind |-> "response", status |-> status, isJson |-> FALSE]

\* requests.get(..., timeout=20); r.raise_for_status(); r.json()
ReqJson(reply) ==
    CASE reply.kind = "timeout" -> Raise("Timeout")
      [] reply.kind = "neterror" -> Raise("ConnectionError")
      [] OTHER -> IF reply.status >= 400 /\ reply.status <= 599 THEN Raise("HTTPError")
                  ELSE IF ~reply.isJson THEN Raise("JSONDecodeError")
                  ELSE Ret(reply.json)

\* what the locality search may answer: a timeout, an error status, a body that
\* is no JSON, a JSON list, no candidate, a candidate without id, two candidates
LocReplies ==
    { Timeout, HttpText(503), HttpText(200),
      HttpJson(200, JList(<<>>)),
      HttpJson(200, JObj(Field("results", JList(<<>>)))),
      HttpJson(200, JObj(Field("items",
          JList(<<JObj(Field("name", JStr(<<"a", ":">>)))>>)))),
      HttpJson(200, JObj(Field("results",
          JList(<<JObj(Field("name", JStr(<<"x">>))),
                  JObj(Merge(Field("name", JStr(<<"A">>)), Field("id", JStr(<<"1">>))))>>)))) }

\* what the data-by-unit call may answer: a network error, an error status, a
\* group that is no object, three rows of which the last does not parse
DataReplies ==
    { NetError, HttpText(404),
      HttpJson(200, JObj(Field("results", JList(<<JNum(1)>>)))),
      HttpJson(200, JObj(Field("results", JList(<<ValuesGroup(
          <<Row(JNum(120), JNum(7), JNum(2020)), Row(JNum(130), JNum(7), JNum(2021)),
            Row(JStr(<<"b", "a", "d">>), JNum(7), JNum(2022))>>)>>)))) }

-----------------------------------------------------------------------------
(* GET /bdl/population, app.py:159-246 *)

\* request.args.get(...) of the five parameters; a missing one is the empty string
RawQuery(m, g) == [miejscowosc |-> m, gmina |-> g, powiat |-> <<>>, woj |-> <<>>, year |-> <<>>]

RawQueries ==
    { RawQuery(<<"a", ":">>, <<"b">>),
      RawQuery(<<" ", "a", ":">>, <<"b", "\t">>),
      RawQuery(<<"a">>, <<":", "b">>),
      RawQuery(<<" ">>, <<"b">>) }

\* app.py:161-165
NormQuery(raw) ==
    [miejscowosc |-> NormStr(raw.miejscowosc), gmina |-> NormStr(raw.gmina),
     powiat |-> NormStr(raw.powiat), woj |-> NormStr(raw.woj), year |-> NormStr(raw.year)]

Sep == <<":", ":">>

\* app.py:175
CacheKey(q) ==
    <<"p", "o", "p">> \o Sep \o q.miejscowosc \o Sep \o q.gmina \o Sep \o q.powiat
        \o Sep \o q.woj \o Sep \o q.year

\* None for an empty hint, app.py:228-230
OrNone(s) == IF s = <<>> THEN JNull ELSE JStr(s)

\* the messages, app.py:171, 193, 201, 207, without their diacritics
MsgMissing ==
    "Podaj parametr: miejscowosc (np. ?miejscowosc=Zelewo&gmina=Stare Czarnowo&powiat=gryfinski&woj=zachodniopomorskie)"
MsgNotFound == "Nie znaleziono miejscowosci w BDL (sprawdz pisownie, dodaj gmine/powiat)."
MsgNoMatch == "Brak dopasowania."
MsgNoId == "BDL zwrocil rekord bez id."

\* app.py:168-173
Body400 == [ok |-> FALSE, error |-> <<MsgMissing>>]

\* app.py:185
Body502Loc(exc) == [ok |-> FALSE, error |-> <<"BDL units/localities error: ", exc>>]

\* app.py:220
Body502Data(exc, unit) ==
    [ok |-> FALSE, error |-> <<"BDL data/localities/by-unit error: ", exc>>, unit_id |-> unit]

\* app.py:189-195, 201, 207
NotFound(q, message) ==
    [ok |-> TRUE, found |-> FALSE, miejscowosc |-> q.miejscowosc, message |-> message,
     source |-> "BDL"]

\* app.py:224-243
Found(q, best, unit, latest) ==
    [ok |-> TRUE, found |-> TRUE, miejscowosc |-> q.miejscowosc,
     gmina_hint |-> OrNone(q.gmina), powiat_hint |-> OrNone(q.powiat),
     woj_hint |-> OrNone(q.woj), unit_id |-> unit,
     picked_record |-> [name |-> DictGet(best, "name"), id |-> DictGet(best, "id"),
                        level |-> DictGet(best, "level"),
                        parentId |-> DictGet(best, "parentId")],
     population |-> latest.val, year |-> latest.year, var_id_used |-> "148190",
     note |-> "Jesli population/year sa puste, ustaw inna zmienna", source |-> "BDL (GUS)"]

\* what Flask answers when an exception leaves the view function
Body500 == [html |-> "Internal Server Error"]

Respond(status, body) == [next |-> "respond", status |-> status, body |-> body]
Crash(exc) == [next |-> "crash", exc |-> exc]
Store(out) == [next |-> "store", out |-> out]

\* the error answer of the locality search is stored like any other answer
LocOutcomeCachesError(q, reply) ==
    LET r == ReqJson(reply)
    IN  IF r.raised THEN Store(Body502Loc(r.exc))
        ELSE IF r.val.t # "obj" THEN Crash("AttributeError")
        ELSE LET items == PyOr(PyOr(DictGet(r.val, "results"), DictGet(r.val, "items")),
                               JList(<<>>))
                 b == PickBest(items, q.miejscowosc, q.gmina, q.powiat, q.woj)
             IN  IF ~PyTruthy(items) THEN Store(NotFound(q, MsgNotFound))
                 ELSE IF b.raised THEN Crash(b.exc)
                 ELSE IF ~PyTruthy(b.val) THEN Store(NotFound(q, MsgNoMatch))
                 ELSE IF ~PyTruthy(DictGet(b.val, "id")) THEN Store(NotFound(q, MsgNoId))
                      ELSE [next |-> "data", best |-> b.val, unit |-> DictGet(b.val, "id")]

\* app.py:182-209, from the locality search to the unit id
LocOutcome(q, reply) ==
    LET r == ReqJson(reply)
    IN  IF r.raised THEN Respond(502, Body502Loc(r.exc))
        ELSE IF r.val.t # "obj" THEN Crash("AttributeError")
        ELSE LET items == PyOr(PyOr(DictGet(r.val, "results"), DictGet(r.val, "items")),
                               JList(<<>>))
                 b == PickBest(items, q.miejscowosc, q.gmina, q.powiat, q.woj)
             IN  IF ~PyTruthy(items) THEN Store(NotFound(q, MsgNotFound))
                 ELSE IF b.raised THEN Crash(b.exc)
                 ELSE IF ~PyTruthy(b.val) THEN Store(NotFound(q, MsgNoMatch))
                 ELSE IF ~PyTruthy(DictGet(b.val, "id")) THEN Store(NotFound(q, MsgNoId))
                      ELSE [next |-> "data", best |-> b.val, unit |-> DictGet(b.val, "id")]

\* app.py:212-243, from the data call to the response
DataOutcome(q, best, unit, reply) ==
    LET r == ReqJson(reply)
        e == ExtractLatest(r.val)
    IN  IF r.raised THEN Respond(502, Body502Data(r.exc, unit))
        ELSE IF e.raised THEN Crash(e.exc)
        ELSE Store(Found(q, best, unit, e.val))

-----------------------------------------------------------------------------
(* Worker threads running bdl_population; a step is what one thread does between
   two points where another thread may run *)

\* an upstream answer that is a failure: no 2xx status, a timeout, a network
\* error, or a body that is no JSON object
UpstreamFailed(reply) ==
    \/ reply.kind # "response"
    \/ reply.status < 200 \/ reply.status > 299
    \/ ~reply.isJson
    \/ reply.json.t # "obj"

\* what a request that starts now follows: the request that finished last, when
\* its normalized parameters were the same, and whether it ended within the TTL
Prior(q) ==
    IF ended.done /\ ended.q = q
    THEN [done |-> TRUE, status |-> ended.status,
          within |-> (now - ended.endAt <= CACHE_TTL_SECONDS)]
    ELSE NoCall

\* the normalized parameters of the request whose _cache_set stored this item
WriterOf(key, item) ==
    IF key \in DOMAIN written /\ item = <<written[key].ts, written[key].val>>
    THEN written[key].q
    ELSE NoCall

\* the locals of a request that passed the validation and looked its key up,
\* app.py:161-176 and 31
Working(q) ==
    [pc |-> IF CacheLookup(CACHE, CacheKey(q)) = NoItem THEN "loc" ELSE "check",
     q |-> q, key |-> CacheKey(q), item |-> CacheLookup(CACHE, CacheKey(q)),
     seenQ |-> WriterOf(CacheKey(q), CacheLookup(CACHE, CacheKey(q))),
     found |-> CacheLookup(CACHE, CacheKey(q)) # NoItem,
     inTTL |-> FALSE, purge |-> "none", calls |-> 0, failed |-> FALSE,
     out |-> JNull, prior |-> Prior(q)]

\* the record kept of a finished request
Done(w, status, body, hit, after) ==
    [done |-> TRUE, q |-> w.q, key |-> w.key, status |-> status, body |-> body,
     calls |-> w.calls, failed |-> w.failed, hit |-> hit, seen |-> w.item,
     seenQ |-> w.seenQ, found |-> w.found, inTTL |-> w.inTTL, purge |-> w.purge,
     set |-> (w.pc = "set"), after |-> after, prior |-> w.prior, endAt |-> now]

\* the request of thread t ends: the thread is idle again
Finish(t, rec) ==
    /\ th' = [th EXCEPT ![t] = Idle]
    /\ last' = rec
    /\ ended' = [done |-> TRUE, q |-> rec.q, status |-> rec.status, endAt |-> rec.endAt]

\* the request of thread t goes on with the locals w
Continue(t, w) ==
    /\ th' = [th EXCEPT ![t] = w]
    /\ last' = NoCall
    /\ UNCHANGED ended

\* app.py:161-176, 31-33: the parameters are normalized; a blank place name ends
\* with 400; otherwise item = CACHE.get(key), and no item is a miss.  The request
\* goes to the first idle worker, which of the workers runs it being immaterial.
Receive(t) ==
    /\ th[t].pc = "idle"
    /\ \A u \in Threads : u < t => th[u].pc # "idle"
    /\ nreq < MaxReq
    /\ nreq' = nreq + 1
    /\ \E raw \in RawQueries :
          LET w == Working(NormQuery(raw))
          IN  IF w.q.miejscowosc = <<>>
              THEN Finish(t, Done([w EXCEPT !.pc = "idle", !.item = NoItem, !.seenQ = NoCall,
                                            !.found = FALSE],
                                  400, Body400, FALSE, CacheLookup(CACHE, w.key)))
              ELSE Continue(t, w)
    /\ UNCHANGED <<CACHE, now, ticks, written, delLog, cacheOp, lastSet,
                   pickIn, pickOut, exIn, exOut>>

\* app.py:34-35, 41, 177-178: the age test; a fresh item is returned as the
\* response, an expired one is not read again
Check(t) ==
    /\ th[t].pc = "check"
    /\ LET w == [th[t] EXCEPT !.inTTL = (now - th[t].item[1] <= CACHE_TTL_SECONDS)]
       IN  IF Expired(w.item, now)
           THEN Continue(t, [w EXCEPT !.pc = "del", !.item = NoItem, !.seenQ = NoCall])
           ELSE Finish(t, Done(w, 200, w.item[2], TRUE, CacheLookup(CACHE, w.key)))
    /\ UNCHANGED <<CACHE, now, ticks, nreq, written, delLog, cacheOp, lastSet,
                   pickIn, pickOut, exIn, exOut>>

\* what del finds under the key: nothing, an entry past its TTL, or a fresh one
Purged(cache, key, t) ==
    IF key \notin DOMAIN cache THEN "absent"
    ELSE IF t - cache[key][1] > CACHE_TTL_SECONDS THEN "expired" ELSE "fresh"

\* app.py:36-40: the entry under the key is removed, whatever it is by now
Del(t) ==
    /\ th[t].pc = "del"
    /\ LET d == TryDel(CACHE, th[t].key)
           w == [th[t] EXCEPT !.purge = Purged(CACHE, th[t].key, now)]
       IN  /\ CACHE' = d.cache
           /\ delLog' = delLog \cup {d.outcome}
           /\ IF d.outcome = "raised"
              THEN Finish(t, Done(w, 500, Body500, FALSE, CacheLookup(d.cache, w.key)))
              ELSE Continue(t, [w EXCEPT !.pc = "loc"])
    /\ UNCHANGED <<now, ticks, nreq, written, cacheOp, lastSet,
                   pickIn, pickOut, exIn, exOut>>

\* app.py:196-197, 202-203, 208-209, 245-246: _cache_set(cache_key, out); return 200
SetAndReturn(t, w, out) ==
    /\ CACHE' = CacheSet(CACHE, w.key, now, out)
    /\ written' = [k \in DOMAIN written \cup {w.key} |->
                       IF k = w.key THEN [ts |-> now, val |-> out, q |-> w.q]
                       ELSE written[k]]
    /\ Finish(t, Done([w EXCEPT !.pc = "set", !.out = out], 200, out, FALSE,
                      CacheLookup(CACHE', w.key)))

\* the end of a request that missed the cache: a 502, a 500 for an exception that
\* leaves the handler, or the out it stores and returns
Proceed(t, w, o) ==
    CASE o.next = "respond" ->
             /\ Finish(t, Done(w, o.status, o.body, FALSE, CacheLookup(CACHE, w.key)))
             /\ UNCHANGED <<CACHE, written>>
      [] o.next = "crash" ->
             /\ Finish(t, Done(w, 500, Body500, FALSE, CacheLookup(CACHE, w.key)))
             /\ UNCHANGED <<CACHE, written>>
      [] o.next = "store" -> SetAndReturn(t, w, o.out)

\* app.py:182-246: every way the two upstream calls can go for a request with
\* the normalized parameters q, and what the handler makes of it
UpstreamRuns(q) ==
    {[calls |-> 1, failed |-> UpstreamFailed(reply1), o |-> LocOutcome(q, reply1)] :
        reply1 \in {r \in LocReplies : LocOutcome(q, r).next # "data"}}
    \cup
    {[calls |-> 2, failed |-> UpstreamFailed(p[1]) \/ UpstreamFailed(p[2]),
      o |-> DataOutcome(q, LocOutcome(q, p[1]).best, LocOutcome(q, p[1]).unit, p[2])] :
        p \in {r \in LocReplies : LocOutcome(q, r).next = "data"} \X DataReplies}

\* the same, tabulated over the normalized parameters of the requests
RunsOf == [q \in {NormQuery(raw) : raw \in RawQueries} |-> UpstreamRuns(q)]

\* app.py:182-246: the two upstream calls and what follows them.  The calls read
\* and write no shared state, so the step runs from the first call to the next
\* access of CACHE (the _cache_set) or to the response.
Upstream(t) ==
    /\ th[t].pc = "loc"
    /\ \E run \in RunsOf[th[t].q] :
          Proceed(t, [th[t] EXCEPT !.calls = run.calls, !.failed = run.failed], run.o)
    /\ UNCHANGED <<now, ticks, nreq, delLog, cacheOp, lastSet,
                   pickIn, pickOut, exIn, exOut>>

\* a whole TTL passes, at any point of any request
TickTTL ==
    /\ ticks < MaxTicks
    /\ now' = now + CACHE_TTL_SECONDS
    /\ ticks' = ticks + 1
    /\ last' = NoCall
    /\ UNCHANGED <<CACHE, th, ended, nreq, written, delLog, cacheOp, lastSet,
                   pickIn, pickOut, exIn, exOut>>

Init ==
    /\ CACHE = EmptyCache
    /\ now = 0
    /\ ticks = 0
    /\ th = [t \in Threads |-> Idle]
    /\ last = NoCall
    /\ ended = NoCall
    /\ nreq = 0
    /\ written = NoWrites
    /\ delLog = {}
    /\ cacheOp = [op |-> "none"]
    /\ lastSet = [k \in CacheKeys |-> NoItem]
    /\ pickIn = NoCall
    /\ pickOut = NoCall
    /\ exIn = NoCall
    /\ exOut = NoCall

Next ==
    \/ \E t \in Threads : Receive(t)
    \/ \E t \in Threads : Check(t)
    \/ \E t \in Threads : Del(t)
    \/ \E t \in Threads : Upstream(t)
    \/ TickTTL

Spec == Init /\ [][Next]_vars

-----------------------------------------------------------------------------
(* Properties of the handler *)

UpstreamFailureGives502 ==
    (last.done /\ last.failed) =>
        last.status = 502 /\ last.body.ok = FALSE /\ last.body.error # <<>>

\* C8: under every interleaving of the cache steps of concurrent requests no del
\* raises out of _cache_get, and every entry of CACHE is the (timestamp,
\* response) pair of one single _cache_set call: the last one on its key.  A
\* request is answered from an entry that a _cache_set wrote, without upstream
\* call, or it goes to the upstream: a race costs upstream calls and overwritten
\* or removed entries, never a response that no request stored.
CacheRaceSafe ==
    /\ "raised" \notin delLog
    /\ \A k \in DOMAIN CACHE :
          k \in DOMAIN written /\ CACHE[k] = <<written[k].ts, written[k].val>>
    /\ (last.done /\ last.hit) =>
          last.calls = 0 /\ last.seenQ # NoCall /\ last.body = last.seen[2]
    /\ (last.done /\ ~last.hit /\ last.status # 400) => last.calls >= 1

\* a del has found its key already removed by another request, and a request
\* has written the key since
CacheRaceSafeWitness ==
    /\ "absent" \in delLog
    /\ CACHE # EmptyCache

\* C9: a request answered from the cache gets a response that was stored by a
\* request with the same normalized tuple.
CacheKeyedByTuple == (last.done /\ last.hit) => last.seenQ = last.q

\* a request that ended with 400 or 502 has not called _cache_set
FailureStoresNothing == (last.done /\ last.status \in {400, 502}) => ~last.set

\* what is in CACHE is a 200 response
OnlyOkInCache == \A k \in DOMAIN CACHE : CACHE[k][2].ok

\* a request that ended with 200 after a miss has called _cache_set, and the
\* entry under its key as it returns is its response with the time of the call
OkIsStored ==
    (last.done /\ last.status = 200 /\ ~last.hit) =>
        /\ last.set
        /\ last.key = CacheKey(last.q)
        /\ last.after = <<last.endAt, last.body>>

\* C10 as stated: a request that ends with 400 or 502 never calls _cache_set and
\* changes the cache at most by removing an expired entry; an identical request
\* that follows a 502 goes to the upstream again (unless it is answered from an
\* entry that a request with another tuple stored under the same key, which is
\* C9's matter); a request that ends with 200 after a miss stores exactly its
\* response under its key; only 200 responses are in the cache.
OnlyOkStored ==
    /\ FailureStoresNothing
    /\ OnlyOkInCache
    /\ OkIsStored
    /\ (last.done /\ last.status \in {400, 502}) => last.purge # "fresh"
    /\ (last.done /\ last.prior.done /\ last.prior.status = 502) =>
            last.calls >= 1 \/ (last.hit /\ last.seenQ # last.q)

\* C10 amended: as stated, except that the entry such a request removes under its
\* key is the one there when its del runs, which its lookup found past the TTL
\* but which another request may have replaced by a fresh one since; and that an
\* identical request following a 502 goes to the upstream again unless it is
\* answered from an entry some request has stored.
OnlyOkStoredAmended ==
    /\ FailureStoresNothing
    /\ OnlyOkInCache
    /\ OkIsStored
    /\ (last.done /\ last.status \in {400, 502} /\ last.purge # "none") =>
            last.found /\ ~last.inTTL
    /\ (last.done /\ last.prior.done /\ last.prior.status = 502) =>
            last.calls >= 1 \/ (last.hit /\ last.found)

\* a request that ended with 502 has removed a fresh entry another request wrote
\* after its lookup
OnlyOkStoredAmendedWitness ==
    /\ last.done
    /\ last.status = 502
    /\ last.purge = "fresh"
    /\ ~last.set

====
